---- MODULE Spec2Model ----
(***************************************************************************)
(* Contacts API (iz3n/crm): the three tables of contacts/models.py, the    *)
(* read-only ContactViewSet of contacts/views.py with the cancellation     *)
(* context of contacts/mixins.py and the ContactListSerializer of          *)
(* contacts/serializers.py, and the benchmark harness of                   *)
(* contacts/benchmarks.py with its management command.                     *)
(*                                                                         *)
(* One request is in flight at a time (one thread, one database session).  *)
(* Times are whole seconds; `clock` is time.time() measured from the       *)
(* arrival of the request in flight, plus Epoch.                           *)
(***************************************************************************)
EXTENDS Integers, Sequences, FiniteSets, TLC

\* ---------------------------------------------------------------- bounds
MaxUsers == 2
MaxTerms == 2
MaxTimeout == 1

UserIds == 1..MaxUsers
AddressIds == {1}
CreatedValues == {1, 2}
PointValues == {1, 2}
\* the first and last names users have, over the letters a, A, n, N
FirstNames == {<<"A", "n">>, <<"n", "a">>}
LastNames == {<<"N", "a", "n">>, <<"a">>}
\* the name the admin form is filled with
AdminFirstName == <<"A", "n">>
AdminLastName == <<"N", "a", "n">>

\* SQL NULL / Python None in a column that holds numbers
NULL == -1
\* Python None where the value is otherwise a string
None == "None"
\* first reading of time.time(); positive, so that start_time is truthy
Epoch == 1
\* seconds -> milliseconds, as in int(timeout * 1000)
MsPerSecond == 1000
\* the session's default statement timeout (SET ... = DEFAULT)
DEFAULT == 0

\* ------------------------------------------------------------- variables
VARIABLES
    address,                \* table 'address': the set of ids of its rows
    appuser,                \* table 'appuser': rows [id, created, address]
    customer_relationship,  \* table 'customer_relationship': rows [appuser, points]
    vendor,                 \* connection.vendor
    query_timeout,          \* ContactViewSet.query_timeout (seconds)
    enable_cancellation,    \* QueryCancellationMixin.enable_cancellation
    default_pagination_class, \* the DEFAULT_PAGINATION_CLASS of the settings
    pagination_class,       \* ContactViewSet.pagination_class
    statement_timeout,      \* the session's statement timeout in ms, or DEFAULT
    clock,                  \* time.time()
    pc,                     \* where the request in flight is
    request,                \* the request in flight
    start_time,             \* QueryCancellationContext.start_time
    queries,                \* SQL statements issued for the request in flight
    body,                   \* how the body of the with-block ended
    response,               \* what the view returned or raised
    has_plotting,           \* benchmarks.HAS_PLOTTING
    options,                \* the options of the benchmark command that runs
    bpc,                    \* where the benchmark command is
    step,                   \* the next call of run_all_benchmarks
    cur,                    \* the benchmark_* method that is measuring
    func,                   \* the callable a direct call of measure_time measures
    original_pagination,    \* BenchmarkRunner.original_pagination
    results,                \* BenchmarkRunner.results
    result,                 \* the last record measure_time returned
    invoked,                \* the runner methods the command has invoked
    files                   \* the files the command has written

dbvars == <<address, appuser, customer_relationship>>
viewconf == <<vendor, query_timeout, enable_cancellation, default_pagination_class>>
confvars == <<viewconf, pagination_class>>
reqvars == <<statement_timeout, clock, pc, request, start_time, queries, body, response>>
benchvars == <<has_plotting, options, bpc, step, cur, func, original_pagination, results,
               result, invoked, files>>
vars == <<dbvars, confvars, reqvars, benchvars>>

\* ------------------------------------------------------------ the tables
\* models.py: AppUser.address is a nullable foreign key, CustomerRelationship
\* is one-to-one with AppUser.
AppUserRows == [id : UserIds, created : CreatedValues, address : AddressIds \cup {NULL},
                first_name : FirstNames, last_name : LastNames]
RelationshipRows == [appuser : UserIds, points : PointValues]

HasRelationship(u) == \E r \in customer_relationship : r.appuser = u.id
RelationshipOf(u) == CHOOSE r \in customer_relationship : r.appuser = u.id

\* AppUser.objects.select_related('address', 'relationship'): a user row joined
\* with its relationship row, NULL where there is none
Contact(u) ==
    [id |-> u.id, created |-> u.created, address |-> u.address,
     first_name |-> u.first_name, last_name |-> u.last_name,
     points |-> IF HasRelationship(u) THEN RelationshipOf(u).points ELSE NULL]

\* ------------------------------------------------- admin.py: the writers
\* AppUserAdmin: add a user (created is read-only: it is the time of the save)
AppUserAdmin_add(id, created, addr, first_name, last_name) ==
    /\ pc = "idle"
    /\ id \notin {u.id : u \in appuser}
    /\ addr \in address \cup {NULL}
    /\ appuser' = appuser \cup {[id |-> id, created |-> created, address |-> addr,
                               first_name |-> first_name, last_name |-> last_name]}
    /\ UNCHANGED <<address, customer_relationship, confvars, reqvars, benchvars>>

\* AppUserAdmin: delete a user; CustomerRelationship.appuser is on_delete=CASCADE
AppUserAdmin_delete(id) ==
    /\ pc = "idle"
    /\ id \in {u.id : u \in appuser}
    /\ appuser' = {u \in appuser : u.id # id}
    /\ customer_relationship' = {r \in customer_relationship : r.appuser # id}
    /\ UNCHANGED <<address, confvars, reqvars, benchvars>>

\* AddressAdmin: add an address
AddressAdmin_add(a) ==
    /\ pc = "idle"
    /\ a \notin address
    /\ address' = address \cup {a}
    /\ UNCHANGED <<appuser, customer_relationship, confvars, reqvars, benchvars>>

\* AddressAdmin: delete an address; AppUser.address is on_delete=SET_NULL
AddressAdmin_delete(a) ==
    /\ pc = "idle"
    /\ a \in address
    /\ address' = address \ {a}
    /\ appuser' = {IF u.address = a THEN [u EXCEPT !.address = NULL] ELSE u : u \in appuser}
    /\ UNCHANGED <<customer_relationship, confvars, reqvars, benchvars>>

\* CustomerRelationshipAdmin: add the relationship of a user, or change its points
CustomerRelationshipAdmin_save(id, points) ==
    /\ pc = "idle"
    /\ id \in {u.id : u \in appuser}
    /\ customer_relationship' =
          {r \in customer_relationship : r.appuser # id}
              \cup {[appuser |-> id, points |-> points]}
    /\ UNCHANGED <<address, appuser, confvars, reqvars, benchvars>>

\* CustomerRelationshipAdmin: delete a relationship
CustomerRelationshipAdmin_delete(id) ==
    /\ pc = "idle"
    /\ \E r \in customer_relationship : r.appuser = id
    /\ customer_relationship' = {r \in customer_relationship : r.appuser # id}
    /\ UNCHANGED <<address, appuser, confvars, reqvars, benchvars>>

\* ------------------------------------------------------------ requests
Actions == {"list", "retrieve", "stats"}
\* the _cancel query parameter: absent, empty, or a value
CancelValues == {None, "", "1"}
\* the field names a client writes in ?ordering=: two sortable columns and the
\* name 'points' of the docstring's third example
OrderingNames == {"created", "relationship__points", "points"}
\* one comma-separated term of ?ordering=, '-' prefix or not
Terms == [desc : BOOLEAN, field : OrderingNames]
TermSeqs == UNION {[1..n -> Terms] : n \in 0..MaxTerms}
\* ?ordering=: absent, or the terms of its value (none for the empty string)
NoOrdering == [present |-> FALSE, terms |-> <<>>]
OrderingValues == {NoOrdering} \cup {[present |-> TRUE, terms |-> t] : t \in TermSeqs}

\* ?name=: absent, or its value (a string of Chars, possibly empty)
NoName == [present |-> FALSE, value |-> <<>>]
Name(v) == [present |-> TRUE, value |-> v]
NameValues == {NoName, Name(<<>>), Name(<<"a", "n">>), Name(<<"N">>), Name(<<"n", "a">>),
               Name(<<"a", "a">>)}

NoRequest == [action |-> None, cancel |-> None, ordering |-> NoOrdering, pk |-> NULL,
              name |-> NoName, filters |-> FALSE, cancelled |-> FALSE]
NoResult == [exc |-> None, status |-> 0, detail |-> None, data |-> <<>>]
NoBody == [kind |-> None, exc |-> None, status |-> 0, data |-> <<>>]

\* Truthy as a slip would write it: `is not None` in place of truthiness
IsNotNone(v) == v # None

\* Python truthiness of a query parameter value
Truthy(v) == v # None /\ v # ""

\* mixins.py: QueryCancellationMixin._get_query_param: the value of the query
\* parameter, or the default None when the request does not carry it
get_query_param(req, param_name) ==
    IF param_name = "_cancel" THEN req.cancel ELSE None

\* views.py: the ordering configuration of ContactViewSet
ordering_fields ==
    {"id", "first_name", "last_name", "gender", "customer_id", "phone_number",
     "created", "birthday", "last_updated", "address__city", "address__country",
     "address__city_code", "relationship__points", "relationship__created",
     "relationship__last_activity"}
\* ordering with the '-' of '-created' lost
ordering_ascending == <<[desc |-> FALSE, field |-> "created"]>>

ordering == <<[desc |-> TRUE, field |-> "created"]>>

\* OrderingFilter.remove_invalid_fields: keep the terms that name a field of
\* ordering_fields
remove_invalid_fields(terms) == SelectSeq(terms, LAMBDA t : t.field \in ordering_fields)

\* get_ordering as single-field sorting would have it: only the first term counts
get_ordering_first_term(req) ==
    IF req.ordering.present /\ req.ordering.terms # <<>>
    THEN IF remove_invalid_fields(req.ordering.terms) # <<>>
         THEN <<Head(remove_invalid_fields(req.ordering.terms))>>
         ELSE <<[desc |-> TRUE, field |-> "created"]>>
    ELSE <<[desc |-> TRUE, field |-> "created"]>>

\* OrderingFilter.get_ordering: the valid terms of ?ordering=, or the view's
\* default when the parameter is absent, empty, or has no valid term
get_ordering(req) ==
    IF req.ordering.present /\ req.ordering.terms # <<>>
    THEN IF remove_invalid_fields(req.ordering.terms) # <<>>
         THEN remove_invalid_fields(req.ordering.terms)
         ELSE ordering
    ELSE ordering

\* the sortable columns whose values the rows of the model carry
Columns == {"id", "created", "relationship__points"}

\* the value of a column of a joined row
ColumnValue(c, f) ==
    CASE f = "id" -> c.id
      [] f = "created" -> c.created
      [] f = "relationship__points" -> c.points

\* ORDER BY on one column: PostgreSQL sorts NULL as the largest value, MySQL
\* and SQLite as the smallest
ColumnLess(x, y) ==
    IF x = NULL THEN y # NULL /\ vendor # "postgresql"
    ELSE IF y = NULL THEN vendor = "postgresql"
    ELSE x < y

TermLess(a, b, t) ==
    IF t.desc THEN ColumnLess(ColumnValue(b, t.field), ColumnValue(a, t.field))
    ELSE ColumnLess(ColumnValue(a, t.field), ColumnValue(b, t.field))

RECURSIVE OrderedPair(_, _, _)
OrderedPair(a, b, ord) ==
    IF ord = <<>> THEN TRUE
    ELSE IF Head(ord).field \notin Columns THEN TRUE
    ELSE IF TermLess(a, b, Head(ord)) THEN TRUE
    ELSE IF TermLess(b, a, Head(ord)) THEN FALSE
    ELSE OrderedPair(a, b, Tail(ord))

\* queryset.order_by(*ord): the rows in any order the ORDER BY allows. Rows
\* that tie come in an order the database picks; from a term on a column the
\* model does not carry, any order is allowed.
order_by(rows, ord) ==
    {p \in [1..Cardinality(rows) -> rows] :
        /\ \A i, j \in DOMAIN p : i # j => p[i] # p[j]
        /\ \A i, j \in DOMAIN p : i < j => OrderedPair(p[i], p[j], ord)}

\* Python truthiness of the value of ?name=
NameTruthy(n) == n.present /\ n.value # <<>>

UpperChar(c) ==
    CASE c = "a" -> "A"
      [] c = "n" -> "N"
      [] OTHER -> c

\* SQL UPPER()
UPPER(s) == [i \in DOMAIN s |-> UpperChar(s[i])]

\* SQL text LIKE '%v%', the wildcards of v escaped
LIKE(text, v) ==
    \E i \in 0..(Len(text) - Len(v)) : SubSeq(text, i + 1, i + Len(v)) = v

\* the lookup icontains: UPPER(column) LIKE UPPER('%v%')
icontains(text, v) == LIKE(UPPER(text), UPPER(v))

\* get_queryset with the Q on last_name lost
get_queryset_first_name(req) ==
    IF NameTruthy(req.name)
    THEN {Contact(u) : u \in {v \in appuser : icontains(v.first_name, req.name.value)}}
    ELSE {Contact(u) : u \in appuser}

\* views.py: ContactViewSet.get_queryset: every user joined with its address
\* and relationship, or with a truthy ?name= the users whose first or last
\* name contains it
get_queryset(req) ==
    IF NameTruthy(req.name)
    THEN {Contact(u) : u \in {v \in appuser : \/ icontains(v.first_name, req.name.value)
                                             \/ icontains(v.last_name, req.name.value)}}
    ELSE {Contact(u) : u \in appuser}

\* DjangoFilterBackend and SearchFilter: a request without filter or search
\* parameters keeps every row; one with such parameters (they test columns the
\* model does not carry) keeps some of the rows
filter_queryset(req, rows) == IF req.filters THEN SUBSET rows ELSE {rows}

\* --------------------------------------------------------- serializers.py
\* ContactListSerializer.Meta.fields
Meta_fields ==
    {"id", "first_name", "last_name", "gender", "customer_id", "phone_number", "created",
     "birthday", "last_updated",
     "address_id", "street", "street_number", "city_code", "city", "country",
     "relationship_id", "points", "relationship_created", "last_activity"}

\* the declared fields: the six with source='address.<column>' and the four
\* with source='relationship.<column>'
AddressFields == {"address_id", "street", "street_number", "city_code", "city", "country"}
RelationshipFields == {"relationship_id", "points", "relationship_created", "last_activity"}

\* the first attribute of a field's source; a model field is its own source
source(n) ==
    IF n \in AddressFields THEN "address"
    ELSE IF n \in RelationshipFields THEN "relationship"
    ELSE n

\* allow_null without the declarations of the address fields
allow_null_model_fields(n) == n \in {"gender", "phone_number", "birthday"}

\* allow_null of a field: declared on the address fields, and taken from
\* null=True of the column for a model field
allow_null(n) == n \in AddressFields \cup {"gender", "phone_number", "birthday"}

\* the value of a column the model does not carry
Value == "value"

\* null in the serialized object, by the type of the field
Null(n) == IF n \in {"id", "created", "address_id", "points"} THEN NULL ELSE None

\* the attribute of a joined row a field reads
Attribute(c, n) ==
    CASE n = "id" -> c.id
      [] n = "created" -> c.created
      [] n = "first_name" -> c.first_name
      [] n = "last_name" -> c.last_name
      [] n = "address_id" -> c.address
      [] n = "points" -> c.points
      [] OTHER -> Value

\* rest_framework.fields.get_attribute along a field's source: user.address is
\* None without an address, and the attribute of None raises AttributeError;
\* user.relationship raises ObjectDoesNotExist without a relationship row,
\* which get_attribute answers with None
get_attribute(c, n) ==
    CASE source(n) = "address" -> IF c.address = NULL THEN "AttributeError" ELSE "attribute"
      [] source(n) = "relationship" -> IF c.points = NULL THEN "None" ELSE "attribute"
      [] OTHER -> "attribute"

\* Field.get_attribute: on AttributeError None with allow_null, else SkipField
\* for a field that is not required (every field here is read-only)
Field_get_attribute(c, n) ==
    LET attribute == get_attribute(c, n)
    IN  IF attribute = "AttributeError"
        THEN IF allow_null(n) THEN "None" ELSE "SkipField"
        ELSE attribute

\* Serializer.to_representation: one key for every field that is not skipped,
\* null for an attribute that is None
to_representation(c) ==
    [n \in {m \in Meta_fields : Field_get_attribute(c, m) # "SkipField"} |->
        IF get_attribute(c, n) = "attribute" THEN Attribute(c, n) ELSE Null(n)]

\* ListSerializer: the rows of a page, serialized in their order
serialize(rows) == [i \in DOMAIN rows |-> to_representation(rows[i])]

\* how long the body of the with-block takes: no time, exactly the timeout,
\* or one second longer
Delays == {0, query_timeout, query_timeout + 1}

\* the database cancels a statement that runs longer than the session's
\* statement timeout; the driver raises OperationalError
CanCancel(d) == statement_timeout # DEFAULT /\ d * MsPerSecond > statement_timeout

\* a client sends a request with the query parameters _cancel=c, ordering=o,
\* name=n and, when f, filter or search parameters; the router of urls.py hands
\* it to the view
Get(a, c, o, k, n, f) ==
    /\ pc = "idle"
    /\ (a = "retrieve") = (k # NULL)
    /\ request' = [action |-> a, cancel |-> c, ordering |-> o, pk |-> k,
                   name |-> n, filters |-> f, cancelled |-> FALSE]
    /\ clock' = Epoch
    /\ pc' = "view"
    /\ UNCHANGED <<dbvars, confvars, benchvars, statement_timeout, start_time, queries, body, response>>

\* a request without name, filter or search parameters, ?ordering= on list only
Request(a, c, o, k) ==
    /\ pc = "idle"
    /\ a = "list" \/ o = NoOrdering
    /\ Get(a, c, o, k, NoName, FALSE)

\* the first lines of list, retrieve and stats: a truthy _cancel answers 499
\* without entering the context, anything else goes on to the with-block
CancelOrEnter ==
    IF Truthy(get_query_param(request, "_cancel"))
    THEN /\ request' = [request EXCEPT !.cancelled = TRUE]
         /\ response' = [exc |-> None, status |-> 499,
                         detail |-> "Request cancelled", data |-> <<>>]
         /\ pc' = "done"
    ELSE /\ pc' = "enter"
         /\ UNCHANGED <<request, response>>

\* views.py: ContactViewSet.list, up to the with statement
list ==
    /\ pc = "view" /\ request.action = "list"
    /\ CancelOrEnter
    /\ UNCHANGED <<dbvars, confvars, benchvars, statement_timeout, clock, start_time, queries, body>>

\* views.py: ContactViewSet.retrieve, up to the with statement
retrieve ==
    /\ pc = "view" /\ request.action = "retrieve"
    /\ CancelOrEnter
    /\ UNCHANGED <<dbvars, confvars, benchvars, statement_timeout, clock, start_time, queries, body>>

\* views.py: ContactViewSet.stats, up to the with statement
stats ==
    /\ pc = "view" /\ request.action = "stats"
    /\ CancelOrEnter
    /\ UNCHANGED <<dbvars, confvars, benchvars, statement_timeout, clock, start_time, queries, body>>

\* mixins.py: QueryCancellationContext._set_query_timeout: the statement the
\* vendor understands, none on SQLite
set_query_timeout(timeout) ==
    IF vendor \in {"postgresql", "mysql"}
    THEN /\ statement_timeout' = timeout * MsPerSecond
         /\ queries' = Append(queries, "SET")
    ELSE UNCHANGED <<statement_timeout, queries>>

\* mixins.py: QueryCancellationContext._reset_query_timeout
reset_query_timeout ==
    IF vendor \in {"postgresql", "mysql"}
    THEN /\ statement_timeout' = DEFAULT
         /\ queries' = Append(queries, "RESET")
    ELSE UNCHANGED <<statement_timeout, queries>>

\* mixins.py: QueryCancellationContext.__enter__
enter ==
    /\ pc = "enter"
    /\ start_time' = clock
    /\ IF enable_cancellation /\ query_timeout # 0
       THEN set_query_timeout(query_timeout)
       ELSE UNCHANGED <<statement_timeout, queries>>
    /\ pc' = "body"
    /\ UNCHANGED <<dbvars, confvars, benchvars, clock, request, body, response>>

\* mixins.py: QueryCancellationMixin.check_cancellation, called by get_queryset
check_cancellation(req) == req.cancelled

\* the body of a with-block ends: it took d seconds and either returned the
\* response r or raised; a statement the database cancelled raises
\* OperationalError
EndBody(d, cancelled_by_db, r) ==
    /\ clock' = clock + d
    /\ body' = IF cancelled_by_db
               THEN [kind |-> "raise", exc |-> "OperationalError", status |-> 0, data |-> <<>>]
               ELSE r
    /\ pc' = "exit"

\* ListModelMixin.list with the view's paginator: a page object when a
\* paginator pages the queryset, the bare list when pagination_class is None or
\* NoPagination (whose paginate_queryset returns None). Every page of the model
\* holds all MaxUsers rows.
Paginated == pagination_class \notin {None, "NoPagination"}

\* views.py: the with-block of list, super().list(): the queryset, filtered,
\* ordered and serialized by ContactListSerializer
list_body(d, cancelled_by_db) ==
    /\ pc = "body" /\ request.action = "list"
    /\ d \in Delays
    /\ cancelled_by_db => CanCancel(d)
    /\ queries' = Append(queries, "SELECT")
    /\ IF check_cancellation(request)
       THEN EndBody(d, FALSE, [kind |-> "raise", exc |-> "RequestAborted",
                               status |-> 0, data |-> <<>>])
       ELSE \E kept \in filter_queryset(request, get_queryset(request)) :
            \E rows \in order_by(kept, get_ordering(request)) :
               EndBody(d, cancelled_by_db,
                       [kind |-> "return", exc |-> None, status |-> 200,
                        data |-> serialize(rows)])
    /\ UNCHANGED <<dbvars, confvars, benchvars, statement_timeout, request, start_time, response>>

\* views.py: the with-block of retrieve, super().retrieve(): the row with the
\* primary key of the URL, or Http404
retrieve_body(d, cancelled_by_db) ==
    /\ pc = "body" /\ request.action = "retrieve"
    /\ d \in Delays
    /\ cancelled_by_db => CanCancel(d)
    /\ queries' = Append(queries, "SELECT")
    /\ IF check_cancellation(request)
       THEN EndBody(d, FALSE, [kind |-> "raise", exc |-> "RequestAborted",
                               status |-> 0, data |-> <<>>])
       ELSE IF \E c \in get_queryset(request) : c.id = request.pk
       THEN EndBody(d, cancelled_by_db,
                    [kind |-> "return", exc |-> None, status |-> 200,
                     data |-> serialize(<<CHOOSE c \in get_queryset(request) :
                                                      c.id = request.pk>>)])
       ELSE EndBody(d, cancelled_by_db,
                    [kind |-> "raise", exc |-> "Http404", status |-> 0, data |-> <<>>])
    /\ UNCHANGED <<dbvars, confvars, benchvars, statement_timeout, request, start_time, response>>

\* stats_body with a get_or_create of the relationship while counting
stats_body_get_or_create(d, cancelled_by_db) ==
    /\ pc = "body" /\ request.action = "stats"
    /\ d \in Delays
    /\ cancelled_by_db => CanCancel(d)
    /\ queries' = Append(queries, "SELECT")
    /\ customer_relationship' = customer_relationship \cup
           {[appuser |-> u.id, points |-> 1] : u \in {v \in appuser : ~HasRelationship(v)}}
    /\ EndBody(d, cancelled_by_db,
               [kind |-> "return", exc |-> None, status |-> 200,
                data |-> [total_contacts |-> Cardinality(appuser),
                          contacts_with_address |->
                              Cardinality({u \in appuser : u.address # NULL}),
                          contacts_with_relationship |-> Cardinality(appuser)]])
    /\ UNCHANGED <<address, appuser, confvars, benchvars, statement_timeout, request,
                   start_time, response>>

\* stats_body counting over get_queryset() in place of AppUser.objects
stats_body_get_queryset(d, cancelled_by_db) ==
    /\ pc = "body" /\ request.action = "stats"
    /\ d \in Delays
    /\ cancelled_by_db => CanCancel(d)
    /\ queries' = Append(queries, "SELECT")
    /\ EndBody(d, cancelled_by_db,
               [kind |-> "return", exc |-> None, status |-> 200,
                data |-> [total_contacts |-> Cardinality(get_queryset(request)),
                          contacts_with_address |->
                              Cardinality({c \in get_queryset(request) : c.address # NULL}),
                          contacts_with_relationship |->
                              Cardinality({c \in get_queryset(request) : c.points # NULL})]])
    /\ UNCHANGED <<dbvars, confvars, benchvars, statement_timeout, request, start_time, response>>

\* views.py: the with-block of stats: three counts over AppUser.objects
stats_body(d, cancelled_by_db) ==
    /\ pc = "body" /\ request.action = "stats"
    /\ d \in Delays
    /\ cancelled_by_db => CanCancel(d)
    /\ queries' = Append(queries, "SELECT")
    /\ EndBody(d, cancelled_by_db,
               [kind |-> "return", exc |-> None, status |-> 200,
                data |-> [total_contacts |-> Cardinality(appuser),
                          contacts_with_address |->
                              Cardinality({u \in appuser : u.address # NULL}),
                          contacts_with_relationship |->
                              Cardinality({u \in appuser : HasRelationship(u)})]])
    /\ UNCHANGED <<dbvars, confvars, benchvars, statement_timeout, request, start_time, response>>

\* what leaves the view when __exit__ returns False: the response of the body,
\* the 404 the framework makes of Http404, or the exception of the body
Propagate(b) ==
    IF b.kind = "return"
    THEN [exc |-> None, status |-> b.status, detail |-> None, data |-> b.data]
    ELSE IF b.exc = "Http404"
    THEN [exc |-> None, status |-> 404, detail |-> "Not found.", data |-> <<>>]
    ELSE [exc |-> b.exc, status |-> 0, detail |-> None, data |-> <<>>]

Raise(e) == [exc |-> e, status |-> 0, detail |-> None, data |-> <<>>]

\* exit_outcome with >= in place of >
exit_outcome_at_timeout ==
    IF start_time # 0 /\ clock - start_time >= query_timeout
    THEN Raise("TimeoutError")
    ELSE IF request.cancelled
    THEN Raise("RequestAborted")
    ELSE Propagate(body)

\* mixins.py: QueryCancellationContext.__exit__, the checks after the reset
exit_outcome ==
    IF start_time # 0 /\ clock - start_time > query_timeout
    THEN Raise("TimeoutError")
    ELSE IF request.cancelled
    THEN Raise("RequestAborted")
    ELSE Propagate(body)

\* exit with the reset moved after the checks, so that a raise skips it
exit_reset_last ==
    /\ pc = "exit"
    /\ IF enable_cancellation /\ exit_outcome.exc \notin {"TimeoutError", "RequestAborted"}
       THEN reset_query_timeout
       ELSE UNCHANGED <<statement_timeout, queries>>
    /\ response' = exit_outcome
    /\ pc' = "done"
    /\ UNCHANGED <<dbvars, confvars, benchvars, clock, request, start_time, body>>

\* mixins.py: QueryCancellationContext.__exit__
exit ==
    /\ pc = "exit"
    /\ IF enable_cancellation
       THEN reset_query_timeout
       ELSE UNCHANGED <<statement_timeout, queries>>
    /\ response' = exit_outcome
    /\ pc' = "done"
    /\ UNCHANGED <<dbvars, confvars, benchvars, clock, request, start_time, body>>

\* the view has returned or raised; the caller takes the outcome and the
\* request is over
Respond ==
    /\ pc = "done"
    /\ pc' = "idle"
    /\ request' = NoRequest
    /\ response' = NoResult
    /\ body' = NoBody
    /\ start_time' = 0
    /\ queries' = <<>>
    /\ clock' = Epoch
    /\ UNCHANGED <<dbvars, confvars, benchvars, statement_timeout>>

\* ---------------------------------------------------------- benchmarks.py
MaxResults == 1
\* the longest list a measured callable returns
MaxLen == 1

NoOptions == [no_charts |-> FALSE, no_export |-> FALSE]
NoBenchmark == [test |-> None, use_pagination |-> TRUE]
NoMeasure == [execution_time_ms |-> 0, query_count |-> 0, status_code |-> NULL,
              result_count |-> NULL, error |-> None]

Asc(f) == [desc |-> FALSE, field |-> f]
Desc(f) == [desc |-> TRUE, field |-> f]
Ordering(terms) == [present |-> TRUE, terms |-> terms]

\* BenchmarkRunner.__init__: a new runner
BenchmarkRunner_init ==
    /\ bpc = "idle" /\ cur = NoBenchmark /\ pc = "idle"
    /\ results # <<>> \/ original_pagination # None
    /\ results' = <<>>
    /\ original_pagination' = None
    /\ UNCHANGED <<dbvars, confvars, reqvars, has_plotting, options, bpc, step, cur, func,
                   result, invoked, files>>

\* BenchmarkRunner._setup_pagination: with use_pagination=False the class
\* attribute is saved, unless a value is saved already, and set to NoPagination
setup_pagination(use_pagination) ==
    IF use_pagination
    THEN UNCHANGED <<pagination_class, original_pagination>>
    ELSE /\ original_pagination' =
               IF original_pagination = None THEN pagination_class ELSE original_pagination
         /\ pagination_class' = "NoPagination"

\* BenchmarkRunner._restore_pagination
restore_pagination ==
    IF original_pagination # None
    THEN /\ pagination_class' = original_pagination
         /\ original_pagination' = None
    ELSE UNCHANGED <<pagination_class, original_pagination>>

\* str(e) of the exception a view call raised
ErrorMessage(exc) ==
    CASE exc = "TimeoutError" -> "Query exceeded timeout"
      [] exc = "RequestAborted" -> "Request was cancelled"
      [] OTHER -> exc

\* what a callable handed to measure_time does: it returns None, an object
\* without status_code and data, or a response with a status code and, when it
\* has data, a list, a dict (without 'results', or with 'results' a list or
\* None) or a string; or it raises exc with the message str(e)
NoCall == [kind |-> None, exc |-> None, message |-> None, object |-> None,
           status_code |-> NULL, data |-> "absent", results |-> "absent", len |-> 0]
Returns(object, status_code, data, results_data, len) ==
    [kind |-> "return", exc |-> None, message |-> None, object |-> object,
     status_code |-> status_code, data |-> data, results |-> results_data, len |-> len]
Raises(exc, message) ==
    [kind |-> "raise", exc |-> exc, message |-> message, object |-> None,
     status_code |-> NULL, data |-> "absent", results |-> "absent", len |-> 0]

\* the exception classes a callable raises that derive from Exception
Exceptions == {"OperationalError", "TimeoutError", "RequestAborted", "ValueError"}

\* 'timeout' in error.lower() or 'QueryCanceled' in error, over the messages
\* of OperationalError
TimeoutMessages == {"canceling statement due to statement timeout",
                    "Lock wait Timeout exceeded", "QueryCanceled"}
OperationalErrorMessages == TimeoutMessages \cup {"connection refused"}

\* BenchmarkRunner.measure_time(func), func having run for t seconds and q
\* statements: the record it returns, or the exception it lets through. The
\* try block holds the extraction of the metadata too, so the TypeError of
\* len(None) is reported as the error of func.
measure_time(f, t, q) ==
    LET returned == f.kind = "return"
        response_obj == returned /\ f.object = "Response"
        len_raises == response_obj /\ f.data = "dict" /\ f.results = "None"
        sized == \/ f.data = "list"
                 \/ f.data = "dict" /\ f.results = "list"
    IN  IF ~returned /\ f.exc \notin Exceptions
        THEN [raise |-> f.exc]
        ELSE [execution_time_ms |-> t * MsPerSecond,
              query_count |-> q,
              status_code |-> IF response_obj THEN f.status_code ELSE NULL,
              result_count |-> IF response_obj /\ sized THEN f.len ELSE NULL,
              error |-> IF returned
                        THEN IF len_raises
                             THEN "object of type 'NoneType' has no len()" ELSE None
                        ELSE IF f.exc = "OperationalError" /\ f.message \in TimeoutMessages
                        THEN "TIMEOUT"
                        ELSE f.message]

\* run_query of a benchmark_* method: view(request). What the view raised, or
\* its response: the page dict of a paginator or the bare list for 200, the
\* dict {'detail': ...} otherwise. A statement the database cancelled raises
\* OperationalError with the message of the statement timeout.
run_query ==
    IF response.exc # None
    THEN Raises(response.exc,
                IF response.exc = "OperationalError"
                THEN "canceling statement due to statement timeout"
                ELSE ErrorMessage(response.exc))
    ELSE IF response.status = 200
    THEN Returns("Response", response.status, IF Paginated THEN "dict" ELSE "list",
                 IF Paginated THEN "list" ELSE "absent", Len(response.data))
    ELSE Returns("Response", response.status, "dict", "absent", 0)

\* a benchmark_* method up to the call of the view inside measure_time:
\* _setup_pagination, the request of APIRequestFactory, and view(request)
BeginBenchmark(test, ord, filters, use_pagination) ==
    /\ pc = "idle" /\ cur = NoBenchmark
    /\ setup_pagination(use_pagination)
    /\ request' = [action |-> "list", cancel |-> None, ordering |-> ord, pk |-> NULL,
                   name |-> NoName, filters |-> filters, cancelled |-> FALSE]
    /\ clock' = Epoch
    /\ pc' = "view"
    /\ cur' = [test |-> test, use_pagination |-> use_pagination]
    /\ UNCHANGED <<dbvars, viewconf, statement_timeout, start_time, queries, body,
                   response, has_plotting, options, func, results, result, invoked, files>>

benchmark_initial_list(use_pagination) ==
    BeginBenchmark("initial_list_load", NoOrdering, FALSE, use_pagination)

benchmark_filter_by_name(use_pagination) ==
    BeginBenchmark("filter_by_name", NoOrdering, TRUE, use_pagination)

benchmark_sort_by_attribute(ord, use_pagination) ==
    BeginBenchmark("sort_by_attribute", Ordering(ord), FALSE, use_pagination)

benchmark_filter_and_sort(use_pagination) ==
    BeginBenchmark("filter_and_sort", Ordering(<<Desc("relationship__points")>>), TRUE,
                   use_pagination)

benchmark_complex_query(use_pagination) ==
    BeginBenchmark("complex_query", Ordering(<<Desc("relationship__last_activity")>>), TRUE,
                   use_pagination)

benchmark_multi_field_sort(ord, use_pagination) ==
    BeginBenchmark("multi_field_sort", Ordering(ord), FALSE, use_pagination)

benchmark_multiple_filters(use_pagination) ==
    BeginBenchmark("multiple_filters", NoOrdering, TRUE, use_pagination)

benchmark_search(use_pagination) ==
    BeginBenchmark("search", NoOrdering, TRUE, use_pagination)

\* benchmark_pagination_all_pages up to the first _fetch_page
benchmark_pagination_all_pages ==
    BeginBenchmark("pagination_selected_pages", NoOrdering, FALSE, TRUE)

\* the view call is over: the request and its context are gone
ViewReturned ==
    /\ pc' = "idle"
    /\ request' = NoRequest
    /\ response' = NoResult
    /\ body' = NoBody
    /\ start_time' = 0
    /\ queries' = <<>>
    /\ clock' = Epoch

\* the rest of a benchmark_* method once the view call is over: the record of
\* measure_time, _restore_pagination, and the entry appended to results (the
\* entry's copy of the measurement is in `result`)
EndBenchmark ==
    /\ pc = "done" /\ cur # NoBenchmark /\ cur.test # "pagination_selected_pages"
    /\ result' = measure_time(run_query, clock - Epoch, Len(queries))
    /\ restore_pagination
    /\ results' = Append(results, cur)
    /\ cur' = NoBenchmark
    /\ ViewReturned
    /\ UNCHANGED <<dbvars, viewconf, statement_timeout, has_plotting, options, bpc, step,
                   func, invoked, files>>

\* _fetch_page: total_count is the count of a paged response, 0 otherwise
total_count == IF response.exc = None /\ Paginated THEN Len(response.data) ELSE 0

\* the rest of benchmark_pagination_all_pages once page 1 is fetched: an error
\* or an empty count returns None, and the rows of the model fill one page of
\* page_size=1000, so the summary of a single page is appended
EndPaginationBenchmark ==
    /\ pc = "done" /\ cur.test = "pagination_selected_pages"
    /\ result' = measure_time(run_query, clock - Epoch, Len(queries))
    /\ restore_pagination
    /\ results' = IF run_query.kind = "raise" \/ total_count = 0
                  THEN results ELSE Append(results, cur)
    /\ cur' = NoBenchmark
    /\ ViewReturned
    /\ UNCHANGED <<dbvars, viewconf, statement_timeout, has_plotting, options, bpc, step,
                   func, invoked, files>>

\* a caller outside the command calls one benchmark_* method of its runner
DirectCall ==
    /\ bpc = "idle" /\ Len(results) < MaxResults
    /\ UNCHANGED <<bpc, step>>
    /\ \/ \E p \in BOOLEAN : benchmark_initial_list(p)
       \/ \E p \in BOOLEAN : benchmark_filter_by_name(p)
       \/ \E p \in BOOLEAN : benchmark_sort_by_attribute(<<Desc("created")>>, p)
       \/ \E p \in BOOLEAN : benchmark_filter_and_sort(p)
       \/ \E p \in BOOLEAN : benchmark_complex_query(p)
       \/ \E p \in BOOLEAN :
             benchmark_multi_field_sort(<<Desc("relationship__points"), Asc("last_name"),
                                          Asc("first_name")>>, p)
       \/ \E p \in BOOLEAN : benchmark_multiple_filters(p)
       \/ \E p \in BOOLEAN : benchmark_search(p)
       \/ benchmark_pagination_all_pages

\* run_all_benchmarks skips a call whose sample value the tables do not give
SkipCall == UNCHANGED <<dbvars, confvars, reqvars, has_plotting, options, cur, func,
                        original_pagination, results, result, invoked, files>>

\* the sample values of run_all_benchmarks: a first name when there is a user,
\* a city when a user has an address
sample_user_first_name == appuser # {}
sample_address_city == \E u \in appuser : u.address # NULL

\* run_all_benchmarks: its twelve benchmark calls, each with pagination
run_all_benchmarks ==
    /\ bpc = "run_all" /\ cur = NoBenchmark /\ pc = "idle"
    /\ step \in 1..12
    /\ step' = step + 1
    /\ UNCHANGED bpc
    /\ CASE step = 1 -> benchmark_initial_list(TRUE)
         [] step = 2 -> IF sample_user_first_name
                        THEN benchmark_filter_by_name(TRUE) ELSE SkipCall
         [] step = 3 -> benchmark_sort_by_attribute(<<Desc("created")>>, TRUE)
         [] step = 4 -> benchmark_sort_by_attribute(<<Asc("relationship__points")>>, TRUE)
         [] step = 5 -> benchmark_sort_by_attribute(<<Asc("address__city")>>, TRUE)
         [] step = 6 -> benchmark_multi_field_sort(
                            <<Desc("relationship__points"), Asc("last_name"),
                              Asc("first_name")>>, TRUE)
         [] step = 7 -> benchmark_multi_field_sort(
                            <<Asc("address__country"), Asc("address__city"),
                              Desc("created")>>, TRUE)
         [] step = 8 -> IF sample_address_city
                        THEN benchmark_filter_and_sort(TRUE) ELSE SkipCall
         [] step = 9 -> benchmark_multiple_filters(TRUE)
         [] step = 10 -> IF sample_user_first_name
                         THEN benchmark_search(TRUE) ELSE SkipCall
         [] step = 11 -> benchmark_complex_query(TRUE)
         [] step = 12 -> benchmark_pagination_all_pages

\* BenchmarkRunner.generate_charts: nothing to do without matplotlib/pandas or
\* without results, else the chart file
generate_charts ==
    /\ invoked' = invoked \cup {"generate_charts"}
    /\ files' = IF has_plotting /\ results # <<>>
                THEN files \cup {"benchmark_charts.png"} ELSE files

\* BenchmarkRunner.export_results: the JSON file, and the CSV file with pandas
export_results ==
    /\ invoked' = invoked \cup {"export_results"}
    /\ files' = IF results = <<>> THEN files
                ELSE IF has_plotting
                THEN files \cup {"benchmark_results.json", "benchmark_results.csv"}
                ELSE files \cup {"benchmark_results.json"}

\* BenchmarkRunner.export_pagination_report: the report of the pagination
\* benchmark, when it has a result
export_pagination_report ==
    /\ invoked' = invoked \cup {"export_pagination_report"}
    /\ files' = IF \E i \in DOMAIN results : results[i].test = "pagination_selected_pages"
                THEN IF has_plotting
                     THEN files \cup {"pagination_report.json", "pagination_report.csv",
                                      "pagination_charts.png"}
                     ELSE files \cup {"pagination_report.json"}
                ELSE files

BenchFrame == UNCHANGED <<dbvars, confvars, reqvars, has_plotting, options, cur, func,
                          original_pagination, results, result>>

\* run_all_benchmarks after its benchmark calls: "Generate charts and export
\* results", then back in Command.handle
run_all_benchmarks_export ==
    /\ bpc = "run_all" /\ cur = NoBenchmark /\ pc = "idle"
    /\ step \in 13..15
    /\ CASE step = 13 -> generate_charts /\ UNCHANGED bpc
         [] step = 14 -> export_results /\ UNCHANGED bpc
         [] step = 15 -> export_pagination_report /\ bpc' = "handle_charts"
    /\ step' = step + 1
    /\ BenchFrame

\* Command.handle of manage.py benchmark: a new runner and run_all_benchmarks
handle(no_charts, no_export) ==
    /\ bpc = "idle" /\ cur = NoBenchmark /\ pc = "idle"
    /\ options' = [no_charts |-> no_charts, no_export |-> no_export]
    /\ results' = <<>>
    /\ original_pagination' = None
    /\ invoked' = {}
    /\ files' = {}
    /\ bpc' = "run_all"
    /\ step' = 1
    /\ UNCHANGED <<dbvars, confvars, reqvars, has_plotting, cur, func, result>>

\* Command.handle: "Generate charts unless disabled"
handle_charts ==
    /\ bpc = "handle_charts"
    /\ IF ~options.no_charts THEN generate_charts ELSE UNCHANGED <<invoked, files>>
    /\ bpc' = "handle_export"
    /\ UNCHANGED step
    /\ BenchFrame

\* Command.handle: "Export results unless disabled"
handle_export ==
    /\ bpc = "handle_export"
    /\ IF ~options.no_export THEN export_results ELSE UNCHANGED <<invoked, files>>
    /\ bpc' = "finished"
    /\ UNCHANGED step
    /\ BenchFrame

\* the command process exits
CommandExit ==
    /\ bpc = "finished"
    /\ bpc' = "idle"
    /\ options' = NoOptions
    /\ step' = 0
    /\ results' = <<>>
    /\ invoked' = {}
    /\ files' = {}
    /\ UNCHANGED <<dbvars, confvars, reqvars, has_plotting, cur, func, original_pagination,
                   result>>

\* ------------------------------------------------------ the specification
Vendors == {"postgresql", "mysql", "sqlite"}

\* views.py: ContactViewSet.query_timeout
ViewQueryTimeout == 30

\* no benchmark command runs
InitBenchIdle ==
    /\ has_plotting = FALSE
    /\ options = NoOptions
    /\ bpc = "idle"
    /\ step = 0
    /\ cur = NoBenchmark
    /\ func = NoCall
    /\ original_pagination = None
    /\ results = <<>>
    /\ result = NoMeasure
    /\ invoked = {}
    /\ files = {}

InitRequest ==
    /\ InitBenchIdle
    /\ statement_timeout = DEFAULT
    /\ clock = Epoch
    /\ pc = "idle"
    /\ request = NoRequest
    /\ start_time = 0
    /\ queries = <<>>
    /\ body = NoBody
    /\ response = NoResult

\* the configuration of the repository: query_timeout = 30 and
\* enable_cancellation = True, on PostgreSQL (migration 0004 enables pg_trgm)
InitConf ==
    /\ vendor = "postgresql"
    /\ query_timeout = ViewQueryTimeout
    /\ enable_cancellation = TRUE
    /\ default_pagination_class = "PageNumberPagination"
    /\ pagination_class = default_pagination_class

\* the deployed view over an empty database
Init ==
    /\ address = {} /\ appuser = {} /\ customer_relationship = {}
    /\ InitConf
    /\ InitRequest

Admin ==
    \/ \E id \in UserIds, c \in CreatedValues, a \in AddressIds \cup {NULL} :
          AppUserAdmin_add(id, c, a, AdminFirstName, AdminLastName)
    \/ \E id \in UserIds : AppUserAdmin_delete(id)
    \/ \E a \in AddressIds : AddressAdmin_add(a)
    \/ \E a \in AddressIds : AddressAdmin_delete(a)
    \/ \E id \in UserIds, p \in PointValues : CustomerRelationshipAdmin_save(id, p)
    \/ \E id \in UserIds : CustomerRelationshipAdmin_delete(id)

View ==
    \/ list
    \/ retrieve
    \/ stats
    \/ enter
    \/ \E d \in Delays, c \in BOOLEAN : list_body(d, c)
    \/ \E d \in Delays, c \in BOOLEAN : retrieve_body(d, c)
    \/ \E d \in Delays, c \in BOOLEAN : stats_body(d, c)
    \/ exit

\* any request without ?ordering=
Client ==
    \E a \in Actions, c \in CancelValues, k \in UserIds \cup {NULL} :
        Request(a, c, NoOrdering, k)

Next ==
    \/ Admin
    \/ Client
    \/ View
    \/ Respond

\* the endpoint serving requests while the admin site edits the tables
Spec == Init /\ [][Next]_vars

\* ---------------------------------------------- sorting: list requests only
\* every content of the tables without addresses, under both orders of NULL
InitSort ==
    /\ address = {}
    /\ appuser \in SUBSET [id : UserIds, created : CreatedValues, address : {NULL},
                            first_name : {AdminFirstName}, last_name : {AdminLastName}]
    /\ \A u, v \in appuser : u.id = v.id => u = v
    /\ customer_relationship \in SUBSET RelationshipRows
    /\ \A r \in customer_relationship : \E u \in appuser : u.id = r.appuser
    /\ \A r, q \in customer_relationship : r.appuser = q.appuser => r = q
    /\ vendor \in {"postgresql", "sqlite"}
    /\ query_timeout = ViewQueryTimeout
    /\ enable_cancellation = TRUE
    /\ default_pagination_class = "PageNumberPagination"
    /\ pagination_class = default_pagination_class
    /\ InitRequest

NextSort ==
    \/ \E o \in OrderingValues : Request("list", None, o, NULL)
    \/ list
    \/ enter
    \/ list_body(0, FALSE)
    \/ exit
    \/ Respond

SpecSort == InitSort /\ [][NextSort]_vars

\* ------------------------------- the cancellation context: every configuration
InitTimeout ==
    /\ address = {}
    /\ appuser \in {{}, {[id |-> 1, created |-> 1, address |-> NULL,
                           first_name |-> AdminFirstName, last_name |-> AdminLastName]}}
    /\ customer_relationship = {}
    /\ vendor \in Vendors
    /\ query_timeout \in 0..MaxTimeout
    /\ enable_cancellation \in BOOLEAN
    /\ default_pagination_class = "PageNumberPagination"
    /\ pagination_class = default_pagination_class
    /\ InitRequest

NextTimeout ==
    \/ Client
    \/ View
    \/ Respond

SpecTimeout == InitTimeout /\ [][NextTimeout]_vars

\* ------------------------------------------------- the benchmark harness
\* two users, one of them with an address and a relationship
FixtureUsers == {[id |-> 1, created |-> 1, address |-> 1,
                  first_name |-> AdminFirstName, last_name |-> AdminLastName],
                 [id |-> 2, created |-> 2, address |-> NULL,
                  first_name |-> AdminFirstName, last_name |-> AdminLastName]}

InitBench ==
    /\ \/ address = {} /\ appuser = {} /\ customer_relationship = {}
       \/ /\ address = {1}
          /\ appuser = FixtureUsers
          /\ customer_relationship = {[appuser |-> 1, points |-> 2]}
    /\ vendor = "postgresql"
    /\ query_timeout = ViewQueryTimeout
    /\ enable_cancellation = TRUE
    /\ default_pagination_class \in {None, "PageNumberPagination"}
    /\ pagination_class = default_pagination_class
    /\ statement_timeout = DEFAULT
    /\ clock = Epoch
    /\ pc = "idle"
    /\ request = NoRequest
    /\ start_time = 0
    /\ queries = <<>>
    /\ body = NoBody
    /\ response = NoResult
    /\ has_plotting \in BOOLEAN
    /\ options = NoOptions
    /\ bpc = "idle"
    /\ step = 0
    /\ cur = NoBenchmark
    /\ func = NoCall
    /\ original_pagination = None
    /\ results = <<>>
    /\ result = NoMeasure
    /\ invoked = {}
    /\ files = {}

NextBench ==
    \/ BenchmarkRunner_init
    \/ DirectCall
    \/ \E c, e \in BOOLEAN : handle(c, e)
    \/ run_all_benchmarks
    \/ run_all_benchmarks_export
    \/ handle_charts
    \/ handle_export
    \/ CommandExit
    \/ list
    \/ enter
    \/ \E d \in Delays, c \in BOOLEAN : list_body(d, c)
    \/ exit
    \/ EndBenchmark
    \/ EndPaginationBenchmark

SpecBench == InitBench /\ [][NextBench]_vars

\* ------------------------------- query parameters: name, filters, ordering
\* the tables of users with the ids `ids`: created in the order of their ids,
\* with or without the address 1, under every first and last name
QueryUsers(ids) ==
    {{[id |-> i, created |-> i, address |-> f[i].address,
       first_name |-> f[i].first_name, last_name |-> f[i].last_name] : i \in ids} :
        f \in [ids -> [address : AddressIds \cup {NULL},
                       first_name : FirstNames, last_name : LastNames]]}

InitQuery ==
    /\ address = AddressIds
    /\ \E ids \in SUBSET UserIds :
          /\ appuser \in QueryUsers(ids)
          /\ customer_relationship \in SUBSET [appuser : ids, points : {1}]
    /\ InitConf
    /\ InitRequest

\* list requests with ?name=; stats requests with ?name=, with or without
\* ?ordering= and filter or search parameters
NextQuery ==
    \/ \E n \in NameValues : Get("list", None, NoOrdering, NULL, n, FALSE)
    \/ \E n \in NameValues, f \in BOOLEAN,
          o \in {NoOrdering, Ordering(<<Desc("relationship__points")>>)} :
          Get("stats", None, o, NULL, n, f)
    \/ list
    \/ stats
    \/ enter
    \/ list_body(0, FALSE)
    \/ stats_body(0, FALSE)
    \/ exit
    \/ Respond

SpecQuery == InitQuery /\ [][NextQuery]_vars

\* ------------------------------------------- measure_time, called directly
StatusCodes == {200, 404, 499, 500}
Durations == {0, 1}
QueryCounts == {0, 1}

\* the callables measured: every kind of returned object and raised exception
Funcs ==
    {Returns("None", NULL, "absent", "absent", 0),
     Returns("object", NULL, "absent", "absent", 0)}
    \cup {Returns("Response", sc, d, "absent", 0) :
              sc \in StatusCodes, d \in {"absent", "str", "dict"}}
    \cup {Returns("Response", sc, "list", "absent", n) : sc \in StatusCodes, n \in 0..MaxLen}
    \cup {Returns("Response", sc, "dict", "list", n) : sc \in StatusCodes, n \in 0..MaxLen}
    \cup {Returns("Response", sc, "dict", "None", 0) : sc \in StatusCodes}
    \cup {Raises("OperationalError", m) : m \in OperationalErrorMessages}
    \cup {Raises(e, ErrorMessage(e)) : e \in {"TimeoutError", "RequestAborted"}}
    \cup {Raises("ValueError", "invalid literal for int()"),
          Raises("KeyboardInterrupt", "")}

\* measure_time(func) up to the end of func: reset_queries(), the start time,
\* and func running for d seconds and q statements
measure_time_call(f, d, q) ==
    /\ bpc = "idle" /\ pc = "idle" /\ cur = NoBenchmark
    /\ func' = f
    /\ clock' = Epoch + d
    /\ queries' = [i \in 1..q |-> "SELECT"]
    /\ bpc' = "measure_time"
    /\ UNCHANGED <<dbvars, confvars, statement_timeout, pc, request, start_time, body,
                   response, has_plotting, options, step, cur, original_pagination,
                   results, result, invoked, files>>

\* the rest of measure_time: the record, and reset_queries() in finally
measure_time_return ==
    /\ bpc = "measure_time"
    /\ result' = measure_time(func, clock - Epoch, Len(queries))
    /\ queries' = <<>>
    /\ clock' = Epoch
    /\ bpc' = "idle"
    /\ UNCHANGED <<dbvars, confvars, statement_timeout, pc, request, start_time, body,
                   response, has_plotting, options, step, cur, func, original_pagination,
                   results, invoked, files>>

NextMeasure ==
    \/ \E f \in Funcs, d \in Durations, q \in QueryCounts : measure_time_call(f, d, q)
    \/ measure_time_return

SpecMeasure == Init /\ [][NextMeasure]_vars

\* ================================================================ claims

\* C1: the endpoint is read-only. Every step of a request to list, retrieve or
\* stats (from its arrival to the return of the view) leaves the rows of
\* AppUser, Address and CustomerRelationship as they were.
C1_ReadOnly ==
    [][(pc # "idle" \/ pc' # "idle") =>
          /\ appuser' = appuser
          /\ address' = address
          /\ customer_relationship' = customer_relationship]_vars

\* C1 witness: stats has answered over three non-empty tables
C1_Witness ==
    /\ pc = "done" /\ request.action = "stats" /\ response.status = 200
    /\ appuser # {} /\ address # {} /\ customer_relationship # {}
    /\ \E u \in appuser : ~HasRelationship(u)

\* C2: the timeout check is post-hoc. A with-block that has been entered ends
\* only by its body returning or raising; TimeoutError appears only in the step
\* of __exit__, after the body has ended, and __exit__ raises it exactly when
\* the time since __enter__ is strictly greater than the timeout.
C2_PostHocTimeout ==
    [][/\ pc = "body" => pc' = "exit" /\ body'.kind \in {"return", "raise"}
       /\ (response'.exc = "TimeoutError" /\ response.exc # "TimeoutError") =>
             pc = "exit" /\ body.kind \in {"return", "raise"}
       /\ (pc = "exit" /\ pc' = "done") =>
             ((response'.exc = "TimeoutError") <=> (clock - start_time > query_timeout))
      ]_vars

\* C2 witness: a body that returned after more than the timeout, and the
\* TimeoutError __exit__ raised in place of its response
C2_Witness ==
    /\ pc = "done" /\ body.kind = "return" /\ response.exc = "TimeoutError"
    /\ query_timeout > 0 /\ clock - start_time = query_timeout + 1

\* C3: list, retrieve and stats answer 499 {'detail': 'Request cancelled'}
\* exactly when _cancel is present and not empty; such a request never enters
\* the context, issues no statement, and has request._cancelled = True.
C3_CancelledIff499 ==
    /\ pc = "done" =>
          ((response.status = 499 /\ response.detail = "Request cancelled")
              <=> (request.cancel # None /\ request.cancel # ""))
    /\ (pc # "idle" /\ request.cancel # None /\ request.cancel # "") =>
          /\ pc \in {"view", "done"}
          /\ start_time = 0
          /\ queries = <<>>
          /\ statement_timeout = DEFAULT
          /\ body = NoBody
          /\ pc = "done" => request.cancelled

\* C3 witness: a retrieve with _cancel=1 has been answered
C3_Witness ==
    /\ pc = "done" /\ request.action = "retrieve" /\ request.cancel = "1"
    /\ response.status = 499 /\ request.cancelled

C5_PaginationRestored ==
    cur = NoBenchmark => pagination_class = default_pagination_class

\* C6: a run of the benchmark command with --no-charts never invokes
\* generate_charts.
C6_NoChartsSkipsCharts ==
    (bpc # "idle" /\ options.no_charts) => "generate_charts" \notin invoked

\* C7: a run of the benchmark command with --no-export invokes neither
\* export_results nor any other export of the results to files.
C7_NoExportSkipsExport ==
    (bpc # "idle" /\ options.no_export) =>
        /\ "export_results" \notin invoked
        /\ "export_pagination_report" \notin invoked
        /\ files \subseteq {"benchmark_charts.png"}

\* rows is sorted by terms: no row comes after a row that it strictly precedes
\* at the first term on which the two differ
SortedBy(rows, terms) ==
    \A i, j \in DOMAIN rows : i < j =>
        ~ \E k \in DOMAIN terms :
            /\ \A m \in 1..(k - 1) :
                  ColumnValue(rows[i], terms[m].field) = ColumnValue(rows[j], terms[m].field)
            /\ IF terms[k].desc
               THEN ColumnLess(ColumnValue(rows[i], terms[k].field),
                               ColumnValue(rows[j], terms[k].field))
               ELSE ColumnLess(ColumnValue(rows[j], terms[k].field),
                               ColumnValue(rows[i], terms[k].field))

ListAnswered == pc = "done" /\ request.action = "list" /\ response.status = 200

\* C8: multi-field sorting. A list answered for ?ordering= with one or more
\* terms, all naming fields of ordering_fields, returns the contacts sorted
\* lexicographically by these terms, '-' meaning descending.
C8_MultiFieldSorting ==
    (/\ ListAnswered
     /\ request.ordering.present /\ request.ordering.terms # <<>>
     /\ \A k \in DOMAIN request.ordering.terms :
           request.ordering.terms[k].field \in ordering_fields)
        => SortedBy(response.data, request.ordering.terms)

\* C8 witness: ?ordering=-relationship__points,created answered with two rows
\* that tie on points and differ in created
C8_Witness ==
    /\ ListAnswered
    /\ request.ordering.terms = <<[desc |-> TRUE, field |-> "relationship__points"],
                                  [desc |-> FALSE, field |-> "created"]>>
    /\ Len(response.data) = 2
    /\ response.data[1].points = response.data[2].points
    /\ response.data[1].points # NULL
    /\ response.data[1].created < response.data[2].created

\* C9: ?ordering=-points,created returns the contacts sorted by points
\* descending, then created ascending.
C9_DocstringExample ==
    (/\ ListAnswered
     /\ request.ordering.present
     /\ request.ordering.terms = <<[desc |-> TRUE, field |-> "points"],
                                   [desc |-> FALSE, field |-> "created"]>>)
        => SortedBy(response.data, <<[desc |-> TRUE, field |-> "relationship__points"],
                                     [desc |-> FALSE, field |-> "created"]>>)

\* C10: a list answered for a request without ?ordering= returns the contacts
\* sorted by created descending.
C10_DefaultOrdering ==
    (ListAnswered /\ ~request.ordering.present)
        => SortedBy(response.data, <<[desc |-> TRUE, field |-> "created"]>>)

\* C10 witness: two rows of different created, answered without ?ordering=
C10_Witness ==
    /\ ListAnswered /\ ~request.ordering.present
    /\ Len(response.data) = 2
    /\ response.data[1].created > response.data[2].created

\* lower case of a letter
Fold(c) ==
    CASE c = "A" -> "a"
      [] c = "N" -> "n"
      [] OTHER -> c

\* text contains v, letters compared without regard to case
ContainsIgnoringCase(text, v) ==
    \E off \in 0..(Len(text) - Len(v)) :
        \A k \in 1..Len(v) : Fold(text[off + k]) = Fold(v[k])

\* the ids of the users the name filter is to keep
NameMatches(n) ==
    IF n.present /\ n.value # <<>>
    THEN {u.id : u \in {v \in appuser : \/ ContainsIgnoringCase(v.first_name, n.value)
                                        \/ ContainsIgnoringCase(v.last_name, n.value)}}
    ELSE {u.id : u \in appuser}

\* C11: the name filter of get_queryset. With ?name= present and not empty the
\* queryset holds exactly the users whose first_name or last_name contains the
\* value, case ignored; with name absent or empty it holds every user. A list
\* without other filters answers with exactly these users.
C11_NameFilter ==
    /\ (pc = "body" /\ request.action = "list") =>
          {c.id : c \in get_queryset(request)} = NameMatches(request.name)
    /\ (ListAnswered /\ ~request.filters) =>
          /\ {response.data[i].id : i \in DOMAIN response.data} = NameMatches(request.name)
          /\ Len(response.data) = Cardinality(NameMatches(request.name))

\* C11 witness: ?name=na answered over two users with the one it matches, and
\* matches only by the last name 'Nan', in another case
C11_Witness ==
    /\ ListAnswered /\ request.name = Name(<<"n", "a">>)
    /\ Cardinality(appuser) = 2
    /\ Len(response.data) = 1
    /\ response.data[1].first_name = <<"A", "n">>
    /\ response.data[1].last_name = <<"N", "a", "n">>

StatsAnswered == pc = "done" /\ request.action = "stats" /\ response.exc = None

\* C12: stats answers with total_contacts the number of users,
\* contacts_with_address the number of users whose address is not null and
\* contacts_with_relationship the number of users that have a relationship,
\* whatever ?name=, ?ordering= and filter or search parameters the request has.
C12_StatsCounts ==
    StatsAnswered =>
        /\ response.status = 200
        /\ response.data.total_contacts = Cardinality({u.id : u \in appuser})
        /\ response.data.contacts_with_address =
              Cardinality({u.id : u \in {v \in appuser : v.address \in address}})
        /\ response.data.contacts_with_relationship =
              Cardinality({r.appuser : r \in customer_relationship})

\* C12 witness: stats answered over two users with relationships, one of them
\* with an address, for a request whose ?name= matches no user and that has
\* ?ordering= and filter parameters
C12_Witness ==
    /\ StatsAnswered
    /\ request.name = Name(<<"a", "a">>) /\ request.filters /\ request.ordering.present
    /\ NameMatches(request.name) = {}
    /\ response.data.total_contacts = 2
    /\ response.data.contacts_with_address = 1
    /\ response.data.contacts_with_relationship = 2

\* the user a serialized object is of
UserOf(o) == CHOOSE u \in appuser : u.id = o.id

\* C13: ContactListSerializer includes all fields from all 3 tables. Every
\* object of a list or retrieve answer has exactly the 19 names of Meta.fields
\* as its keys, with the user's own columns; the address keys are null for a
\* user without address and the relationship keys are null for a user without
\* CustomerRelationship, and they carry the related row otherwise.
C13_AllFields ==
    (/\ pc = "done" /\ request.action \in {"list", "retrieve"}
     /\ response.exc = None /\ response.status = 200) =>
        \A i \in DOMAIN response.data :
            LET o == response.data[i] IN
            /\ DOMAIN o = Meta_fields
            /\ Cardinality(DOMAIN o) = 19
            /\ \E u \in appuser : u.id = o.id
            /\ o.created = UserOf(o).created
            /\ o.first_name = UserOf(o).first_name
            /\ o.last_name = UserOf(o).last_name
            /\ o.address_id = UserOf(o).address
            /\ IF UserOf(o).address = NULL
               THEN /\ o.address_id = NULL
                    /\ \A n \in {"street", "street_number", "city_code", "city", "country"} :
                          o[n] = None
               ELSE /\ o.address_id \in address
                    /\ \A n \in {"street", "street_number", "city_code", "city", "country"} :
                          o[n] # None
            /\ IF \E r \in customer_relationship : r.appuser = o.id
               THEN /\ \E r \in customer_relationship : r.appuser = o.id /\ r.points = o.points
                    /\ \A n \in {"relationship_id", "relationship_created", "last_activity"} :
                          o[n] # None
               ELSE /\ o.points = NULL
                    /\ \A n \in {"relationship_id", "relationship_created", "last_activity"} :
                          o[n] = None

\* C13 witness: a list answered with two contacts, one with neither address
\* nor relationship and one with both
C13_Witness ==
    /\ pc = "done" /\ request.action = "list" /\ response.status = 200
    /\ Len(response.data) = 2
    /\ \E i, j \in DOMAIN response.data :
          /\ response.data[i].address_id = NULL /\ response.data[i].points = NULL
          /\ response.data[i].street = None /\ response.data[i].last_activity = None
          /\ response.data[j].address_id # NULL /\ response.data[j].points # NULL

\* C14: measure_time handles every failure of the measured call. Once it is
\* over, for a func that returned or raised an Exception, it has not raised
\* and its record has exactly the keys execution_time_ms, query_count,
\* status_code, result_count and error, with error None exactly when func
\* returned, whatever it returned.
C14_MeasureTimeErrorHandling ==
    (/\ bpc = "idle" /\ func # NoCall
     /\ func.kind = "return" \/ func.exc \in Exceptions) =>
        /\ DOMAIN result = {"execution_time_ms", "query_count", "status_code",
                            "result_count", "error"}
        /\ (result.error = None) <=> (func.kind = "return")

====
